---- MODULE Spec2Model ----
(***************************************************************************)
(* Model of k8s-nodeless: Invoke of an AWS Lambda function followed by the *)
(* CloudWatch Logs tail loop (logTail) and stream discovery                *)
(* (listLogStreams).  The Go source of the AWS backend is the code block   *)
(* of src/README.md, lines 33-292.                                         *)
(*                                                                         *)
(* Log messages are sequences of tokens:                                   *)
(*   "S" = the literal "START RequestId: "    "V" = the literal " Version:"*)
(*   "E" = the literal "END RequestId: "      "n" = a newline              *)
(*   anything else = one character that is not part of a literal           *)
(* A request id is the token sequence a regexp group captured; <<>> is the *)
(* empty string.                                                           *)
(***************************************************************************)
EXTENDS Integers, Sequences, FiniteSets, TLC

VARIABLES
    pc,            \* position of the main goroutine
    ret,           \* value returned by Invoke/logTail ("none" while running)
    startCh,       \* number of ticks buffered in channel start
    doneCh,        \* number of signals buffered in channel done
    cancelled,     \* ctx.Done() is closed
    ctxAtCall,     \* ctx was already cancelled when listLogStreams was entered
    startTime,     \* sl.startTime in epoch millis
    lastSeenTime,  \* *lastSeenTime
    requestId,     \* sl.requestId
    eventCache,    \* sl.eventCache: keys, least recently used first
    input,         \* the FilterLogEventsInput of the fetch in progress
    lines,         \* records written by logger.Infow, in order
    diag,          \* messages written by logger.Infof / logger.Info
    op,            \* history: outcome of the last step of the main goroutine
    snap,          \* history: session when the current poll cycle started (after a
                   \* fetch that completed: the session it left)
    npages,        \* history: pages handed to fn in this cycle (2 = several)
    page,          \* history: of the page last handed to fn, how many of its events
                   \* were processed before and, when it was the last page of the
                   \* fetch, its last event ("" when it was empty)
    cacheSize,     \* the size sl.eventCache was made with
    funcName,      \* the function name given to NewAWSServerless
    parsed,        \* what parseAWSFuncName made of funcName
    logStreams,    \* the pages DescribeLogStreams holds for a call of listLogStreams
    listSince,     \* the argument since of that call
    listed,        \* what that call of listLogStreams returned
    tickerC,       \* number of ticks buffered in apiTicker.C
    tickerPc       \* position of the ticker goroutine

\* the variables of the tail loop
loopVars == <<pc, ret, startCh, doneCh, cancelled, ctxAtCall, startTime,
              lastSeenTime, requestId, eventCache, input, lines, diag,
              op, snap, npages, page>>

\* the variables the step-level model of the tail loop leaves alone
outside == <<cacheSize, funcName, parsed, logStreams, listSince, listed, tickerC, tickerPc>>

vars == <<loopVars, outside>>

----------------------------------------------------------------------------
(* Bounds of the model *)

MaxPageLen == 2
MaxListPages == 2
MaxSegments == 7
SmallCache == 2
MaxLines == 5

(* Program constants *)

maxEventsCache == 100000
StartCap == 1
DoneCap == 1
TickerCap == 1

----------------------------------------------------------------------------
(* Helpers *)

SeqsUpTo(S, n) == UNION {[1..k -> S] : k \in 0..n}

\* the sequences of at most n different elements of S
PagesOf(S, n) == {q \in SeqsUpTo(S, n) : \A i, j \in 1..Len(q) : q[i] = q[j] => i = j}

Range(s) == {s[i] : i \in 1..Len(s)}

Last(s) == s[Len(s)]

NoId == <<>>

----------------------------------------------------------------------------
(* The log backend: events and streams that can exist in the log group.   *)
(* An event is immutable: its id determines message, times and stream.    *)
(* An event is received after it was produced: its ingestion time is not  *)
(* before its timestamp.  e1/e2 are the START and END line of invocation  *)
(* a in stream s1, e4/e3 those of invocation b in stream s2.              *)

EventIds == {"e1", "e2", "e3", "e4"}

Events ==
    [id \in EventIds |->
        CASE id = "e1" -> [message |-> <<"S", "a", "V", "x", "n">>,
                           timestamp |-> 1, ingestionTime |-> 1, stream |-> "s1"]
          [] id = "e2" -> [message |-> <<"E", "a", "n">>,
                           timestamp |-> 2, ingestionTime |-> 2, stream |-> "s1"]
          [] id = "e3" -> [message |-> <<"E", "b", "n">>,
                           timestamp |-> 2, ingestionTime |-> 3, stream |-> "s2"]
          [] id = "e4" -> [message |-> <<"S", "b", "V", "x", "n">>,
                           timestamp |-> 1, ingestionTime |-> 2, stream |-> "s2"]]

StartTimes == {1}

(* A stream of a DescribeLogStreams page: complete is FALSE when one of    *)
(* FirstEventTimestamp, LastEventTimestamp, LastIngestionTime or           *)
(* UploadSequenceToken is nil.                                             *)
Stream(n, c, t) == [name |-> n, complete |-> c, lastIngestionTime |-> t]

Listings ==
    { << <<>> >>,
      << <<Stream("s1", TRUE, 2)>> >>,
      << <<Stream("s2", TRUE, 3), Stream("s1", TRUE, 2)>> >>,
      << <<Stream("s2", TRUE, 3)>>, <<Stream("s1", TRUE, 1)>> >>,
      << <<Stream("s3", FALSE, 0)>>, <<Stream("s1", TRUE, 2)>> >>,
      << <<Stream("s2", TRUE, 2), Stream("s3", FALSE, 0), Stream("s1", TRUE, 1)>> >> }

DiscoveryErrors == {"none", "ResourceNotFoundException", "ThrottlingException",
                    "InternalFailure", "RequestCanceled"}

FetchErrors == {"ThrottlingException", "InternalFailure"}

----------------------------------------------------------------------------
(* Regular expressions *)

\* the capture of "(.+)" may not cross a newline
NoNewline(m, lo, hi) == \A k \in lo..hi : m[k] # "n"

\* startRequestRe = "START RequestId: (.+) Version:" matches at i, group ends before j
StartMatchAt(m, i, j) ==
    /\ m[i] = "S"
    /\ j >= i + 2
    /\ m[j] = "V"
    /\ NoNewline(m, i + 1, j - 1)

\* startRequestRe.FindStringSubmatch: leftmost match, greedy group
startRequestRe(m) ==
    LET cand == {i \in 1..Len(m) : \E j \in 1..Len(m) : StartMatchAt(m, i, j)}
    IN  IF cand = {} THEN <<>>
        ELSE LET i == CHOOSE x \in cand : \A y \in cand : x <= y
                 j == CHOOSE x \in 1..Len(m) :
                        /\ StartMatchAt(m, i, x)
                        /\ \A y \in 1..Len(m) : StartMatchAt(m, i, y) => y <= x
             IN  <<SubSeq(m, i, j), SubSeq(m, i + 1, j - 1)>>

\* variant: the end marker is searched with the start pattern
endRequestRe_StartPattern(m) == startRequestRe(m)

\* endRequestRe = "END RequestId: (.+)" matches at i, group ends at j
EndMatchAt(m, i, j) ==
    /\ m[i] = "E"
    /\ j >= i + 1
    /\ j <= Len(m)
    /\ NoNewline(m, i + 1, j)

\* endRequestRe.FindStringSubmatch: leftmost match, greedy group
endRequestRe(m) ==
    LET cand == {i \in 1..Len(m) : \E j \in 1..Len(m) : EndMatchAt(m, i, j)}
    IN  IF cand = {} THEN <<>>
        ELSE LET i == CHOOSE x \in cand : \A y \in cand : x <= y
                 j == CHOOSE x \in 1..Len(m) :
                        /\ EndMatchAt(m, i, x)
                        /\ \A y \in 1..Len(m) : EndMatchAt(m, i, y) => y <= x
             IN  <<SubSeq(m, i, j), SubSeq(m, i + 1, j)>>

----------------------------------------------------------------------------
(* The LRU cache of event ids (hashicorp/golang-lru) *)

\* Cache.Peek: membership, recency untouched
Peek(cache, key) == key \in Range(cache)

Without(cache, key) == SelectSeq(cache, LAMBDA k : k # key)

\* variant: when the cache is over its size, the key added before is evicted
Add_EvictsNewest(cache, key, size) ==
    IF Peek(cache, key) THEN Append(Without(cache, key), key)
    ELSE IF Len(cache) + 1 > size THEN Append(SubSeq(cache, 1, Len(cache) - 1), key)
    ELSE Append(cache, key)

\* Cache.Add: a present key becomes most recent; a new key evicts the oldest
\* one when the cache is over its size
Add(cache, key, size) ==
    IF Peek(cache, key) THEN Append(Without(cache, key), key)
    ELSE LET c == Append(cache, key)
         IN  IF Len(c) > size THEN Tail(c) ELSE c

----------------------------------------------------------------------------
(* The per-page callback fn of logTail *)

\* variant: no deduplication
AlreadySeen_Never(cache, id) == FALSE

\* the event was processed before (a backend redelivery)
AlreadySeen(cache, id) == Peek(cache, id)

\* what the two patterns find in the message of each event of the backend
StartOf == [id \in EventIds |-> startRequestRe(Events[id].message)]

EndOf == [id \in EventIds |-> endRequestRe(Events[id].message)]

\* variant: a START marker sets requestId whenever it is seen
NextRequestId_Overwrites(rid, id) ==
    LET start == StartOf[id]
    IN  IF Len(start) = 2 THEN start[2] ELSE rid

\* sl.requestId after event id was processed
NextRequestId(rid, id) ==
    IF rid = NoId
    THEN LET start == StartOf[id]
         IN  IF Len(start) = 2 THEN start[2] ELSE rid
    ELSE rid

\* variant: the end marker is looked for in every state
SendsDone_AnyState(rid, id) == Len(EndOf[id]) = 2

\* variant: the signal is sent only when the identifiers match
SendsDone_OnlyOnMatch(rid, id) ==
    IF rid = NoId THEN FALSE
    ELSE Len(EndOf[id]) = 2 /\ EndOf[id][2] = rid

\* processing event id executes "done <- struct{}{}"
SendsDone(rid, id) ==
    IF rid = NoId THEN FALSE
    ELSE Len(EndOf[id]) = 2

\* the logger.Infof that follows the send
FinishedDiag(rid, id) ==
    IF rid = EndOf[id][2]
    THEN [kind |-> "finished", request_id |-> rid]
    ELSE [kind |-> "not catched", request_id |-> rid]

\* the record logger.Infow writes for the event; id, after and sent are
\* history fields: the event the record is for, sl.requestId after the event
\* was processed, and whether processing it executed the send on done
InfowLine(id, rid) ==
    [id |-> id, message |-> Events[id].message, request_id |-> rid,
     after |-> NextRequestId(rid, id), sent |-> SendsDone(rid, id)]

\* one iteration of "for _, event := range res.Events"; st.blocked is set when
\* the send on done finds the buffer full: the goroutine stays there
fnEvent(id, st) ==
    IF AlreadySeen(st.eventCache, id) THEN st
    ELSE LET st1 == [st EXCEPT !.eventCache = Add(st.eventCache, id, cacheSize),
                               !.lines = Append(st.lines, InfowLine(id, st.requestId)),
                               !.requestId = NextRequestId(st.requestId, id)]
         IN  IF SendsDone(st.requestId, id)
             THEN IF st.doneCh >= DoneCap
                  THEN [st1 EXCEPT !.blocked = TRUE]
                  ELSE [st1 EXCEPT !.doneCh = st.doneCh + 1,
                                   !.diag = st.diag \cup {FinishedDiag(st.requestId, id)}]
             ELSE st1

RECURSIVE fnEvents(_, _)
fnEvents(evs, st) ==
    IF evs = <<>> \/ st.blocked THEN st
    ELSE fnEvents(Tail(evs), fnEvent(Head(evs), st))

\* variant: the watermark advances on every page
Watermark_EveryPage(lst, evs, lastPage) ==
    IF Len(evs) > 0 THEN Events[Last(evs)].ingestionTime ELSE lst

\* "if lastPage && len(res.Events) > 0 { lastSeenTime = ... }"
Watermark(lst, evs, lastPage) ==
    IF lastPage /\ Len(evs) > 0 THEN Events[Last(evs)].ingestionTime ELSE lst

----------------------------------------------------------------------------
(* listLogStreams *)

\* variant: the ingestion time is not compared with since
Qualifies_IgnoresSince(stream, since) == stream.complete

\* the stream passes both "continue" tests of the callback
Qualifies(stream, since) ==
    /\ stream.complete
    /\ ~(stream.lastIngestionTime < since)

\* the names the callback appends for one page
PageStreams(pg, since) ==
    LET q == SelectSeq(pg, LAMBDA s : Qualifies(s, since))
    IN  [i \in 1..Len(q) |-> q[i].name]

\* DescribeLogStreamsPagesWithContext from page i on: the request for page
\* errAt fails with err; the callback's result decides whether the next page
\* is requested; read counts the pages handed to the callback
RECURSIVE describePages(_, _, _, _, _, _)
describePages(listing, i, since, err, errAt, acc) ==
    IF err # "none" /\ i = errAt THEN [streams |-> acc, err |-> err, read |-> i - 1]
    ELSE IF i > Len(listing) THEN [streams |-> acc, err |-> "none", read |-> i - 1]
    ELSE LET got == PageStreams(listing[i], since)
         IN  IF got = <<>> THEN [streams |-> acc, err |-> "none", read |-> i]
             ELSE describePages(listing, i + 1, since, err, errAt, acc \o got)

\* variant: rate limiting is returned as an error
listLogStreams_ThrottleFails(listing, since, err, errAt) ==
    LET r == describePages(listing, 1, since, err, errAt, <<>>)
    IN  IF r.err \in {"none", "ResourceNotFoundException"}
        THEN [streams |-> r.streams, err |-> "nil"]
        ELSE [streams |-> <<>>, err |-> "DescribeLogStreams"]

\* variant: an error that is neither of the two codes is treated as no streams
listLogStreams_SwallowsErrors(listing, since, err, errAt) ==
    LET r == describePages(listing, 1, since, err, errAt, <<>>)
    IN  IF r.err \in {"none", "ResourceNotFoundException"}
        THEN [streams |-> r.streams, err |-> "nil"]
        ELSE [streams |-> <<>>, err |-> "nil"]

\* the (streams, error) pair listLogStreams returns
listLogStreams(listing, since, err, errAt) ==
    LET r == describePages(listing, 1, since, err, errAt, <<>>)
    IN  IF r.err = "none" THEN [streams |-> r.streams, err |-> "nil"]
        ELSE IF r.err = "ResourceNotFoundException" THEN [streams |-> r.streams, err |-> "nil"]
        ELSE IF r.err = "ThrottlingException" THEN [streams |-> <<>>, err |-> "nil"]
        ELSE [streams |-> <<>>, err |-> "DescribeLogStreams"]

----------------------------------------------------------------------------
(* parseAWSFuncName.  A string is the sequence of its characters; the      *)
(* literal "/aws/lambda/" is one token.                                    *)

Colon == ":"

Digits == {"0", "1", "2", "3", "4", "5", "6", "7", "8", "9"}

\* strings.Split(s, ":") reading s from character i on; cur is the segment
\* collected so far
RECURSIVE SplitFrom(_, _, _)
SplitFrom(s, i, cur) ==
    IF i > Len(s) THEN <<cur>>
    ELSE IF s[i] = Colon THEN <<cur>> \o SplitFrom(s, i + 1, <<>>)
    ELSE SplitFrom(s, i + 1, Append(cur, s[i]))

\* strings.Split(s, ":"): never empty, the empty string gives one empty segment
Split(s) == SplitFrom(s, 1, <<>>)

\* strconv.Atoi(s) returns no error: an optional sign, then one digit or more
\* (the strings of the model are too short to leave the range of int)
AtoiOk(s) ==
    LET d == IF Len(s) > 0 /\ s[1] \in {"+", "-"} THEN Tail(s) ELSE s
    IN  Len(d) > 0 /\ \A i \in 1..Len(d) : d[i] \in Digits

LambdaPrefix == <<"/aws/lambda/">>

Arn == <<"a", "r", "n">>

Aws == <<"a", "w", "s">>

Function == <<"f", "u", "n", "c", "t", "i", "o", "n">>

\* the three results of a call: the values returned with a nil error, the
\* error returned, or the runtime panic of an index out of range
Parsed(group, region) ==
    [kind |-> "ok", logGroupName |-> group, region |-> region, raw |-> <<>>]

WrongFormat(raw) ==
    [kind |-> "wrong format function name", logGroupName |-> <<>>,
     region |-> <<>>, raw |-> raw]

IndexOutOfRange ==
    [kind |-> "panic", logGroupName |-> <<>>, region |-> <<>>, raw |-> <<>>]

\* p[k] of the Go slice p (indices from 0): a panic when k is out of range
HasIndex(p, k) == k + 1 <= Len(p)

\* parseAWSFuncName(funcName)
parseAWSFuncName(raw) ==
    LET p == Split(raw)
    IN  IF Len(p) = 1 THEN Parsed(LambdaPrefix \o raw, <<>>)
        ELSE IF p[1] = Arn /\ p[2] = Aws
        THEN IF HasIndex(p, 6) THEN Parsed(LambdaPrefix \o p[7], p[4])
             ELSE IndexOutOfRange
        ELSE IF AtoiOk(p[1]) /\ p[2] = Function
        THEN IF HasIndex(p, 2) THEN Parsed(LambdaPrefix \o p[3], <<>>)
             ELSE IndexOutOfRange
        ELSE WrongFormat(raw)

NotParsed == [kind |-> "not called", logGroupName |-> <<>>, region |-> <<>>,
              raw |-> <<>>]

----------------------------------------------------------------------------
(* logTail *)

\* variant: the fetch is not limited by the watermark
FilterInput_NoStartTime(lst, streams) == [StartTime |-> 0, LogStreamNames |-> streams]

\* the FilterLogEventsInput built for a fetch
FilterInput(lst, streams) == [StartTime |-> lst, LogStreamNames |-> streams]

NoInput == [StartTime |-> 0, LogStreamNames |-> <<>>]

\* the pages the backend can make of a set of events
Pages == [S \in SUBSET EventIds |-> PagesOf(S, MaxPageLen)]

\* the events FilterLogEvents may return for an input: those of the named
\* streams whose timestamp is not before StartTime
Deliverable(in) ==
    {id \in EventIds : /\ Events[id].stream \in Range(in.LogStreamNames)
                       /\ Events[id].timestamp >= in.StartTime}

Session == [requestId |-> requestId, lastSeenTime |-> lastSeenTime,
            nlines |-> Len(lines), nseen |-> Len(eventCache)]

NoPage == [lastEv |-> "", seen |-> "none"]

\* the session of a fresh AWSServerless, before Invoke
LoopInit ==
    /\ pc = "Invoke"
    /\ ret = "none"
    /\ startCh = 0
    /\ doneCh = 0
    /\ cancelled = FALSE
    /\ ctxAtCall = FALSE
    /\ startTime \in StartTimes
    /\ lastSeenTime = startTime
    /\ requestId = NoId
    /\ eventCache = <<>>
    /\ input = NoInput
    /\ lines = <<>>
    /\ diag = {}
    /\ op = "NewAWSServerless"
    /\ snap = [requestId |-> NoId, lastSeenTime |-> startTime, nlines |-> 0, nseen |-> 0]
    /\ npages = 0
    /\ page = NoPage

MyFunction == <<"f", "n">>

NotListed == [streams |-> <<>>, err |-> "not called", read |-> 0, answer |-> "none"]

\* the function name, the DescribeLogStreams pages and the ticker when they
\* are not what a specification is about
OutsideInit ==
    /\ cacheSize = maxEventsCache
    /\ funcName = MyFunction
    /\ parsed = parseAWSFuncName(MyFunction)
    /\ logStreams = <<>>
    /\ listSince = 0
    /\ listed = NotListed
    /\ tickerC = 0
    /\ tickerPc = "range"

Init == LoopInit /\ OutsideInit

\* a step of the main goroutine that only moves it
Moves(to, result, outcome) ==
    /\ pc' = to
    /\ ret' = result
    /\ op' = outcome
    /\ page' = NoPage

\* Invoke: InvokeWithContext, then logTailStart and the start of logTail
Invoke(resp) ==
    /\ pc = "Invoke"
    /\ cancelled => resp = "error"
    /\ IF resp = "ok"
       THEN Moves("select", "none", "Invoke")
       ELSE Moves("returned", "invoke error", resp)
    /\ UNCHANGED <<startCh, doneCh, cancelled, ctxAtCall, startTime, lastSeenTime,
                   requestId, eventCache, input, lines, diag, snap, npages>>
    /\ UNCHANGED outside

Running == pc \notin {"Invoke", "returned"}

\* the ticker goroutine: "start <- struct{}{}" waits while the buffer is full
Tick ==
    /\ Running
    /\ startCh < StartCap
    /\ startCh' = startCh + 1
    /\ UNCHANGED <<pc, ret, doneCh, cancelled, ctxAtCall, startTime, lastSeenTime,
                   requestId, eventCache, input, lines, diag, op, snap, npages,
                   page>>
    /\ UNCHANGED outside

\* the caller cancels ctx
Cancel ==
    /\ pc # "returned"
    /\ ~cancelled
    /\ cancelled' = TRUE
    /\ UNCHANGED <<pc, ret, startCh, doneCh, ctxAtCall, startTime, lastSeenTime,
                   requestId, eventCache, input, lines, diag, op, snap, npages,
                   page>>
    /\ UNCHANGED outside

\* "case <-start:" up to the call of listLogStreams
SelectStart ==
    /\ pc = "select"
    /\ startCh > 0
    /\ startCh' = startCh - 1
    /\ ctxAtCall' = cancelled
    /\ snap' = Session
    /\ npages' = 0
    /\ Moves("listLogStreams", "none", "SelectStart")
    /\ UNCHANGED <<doneCh, cancelled, startTime, lastSeenTime, requestId,
                   eventCache, input, lines, diag>>
    /\ UNCHANGED outside

\* variant: a fetch is made whatever the number of streams
SkipsCycle_Never(streams) == FALSE

\* "if len(streams) == 0 { continue }"
SkipsCycle(streams) == Len(streams) = 0

\* listLogStreams returns and logTail acts on its result
ListLogStreams(listing, err, errAt) ==
    /\ pc = "listLogStreams"
    /\ ctxAtCall => (err = "RequestCanceled" /\ errAt = 1)
    /\ err = "RequestCanceled" => cancelled
    /\ err # "none" => errAt <= Len(listing) + 1
    /\ LET r == listLogStreams(listing, lastSeenTime, err, errAt)
           answer == describePages(listing, 1, lastSeenTime, err, errAt, <<>>)
           outcome == IF answer.err # "none" THEN answer.err
                      ELSE IF answer.streams = <<>> THEN "NoStreams"
                      ELSE "Discovered"
       IN  IF r.err # "nil"
           THEN /\ Moves("returned", "listLogStreams error", outcome)
                /\ input' = input
           ELSE IF SkipsCycle(r.streams)
           THEN /\ Moves("select", "none", outcome)
                /\ input' = input
           ELSE /\ Moves("FilterLogEventsPages", "none", outcome)
                /\ input' = FilterInput(lastSeenTime, r.streams)
    /\ ctxAtCall' = FALSE
    /\ UNCHANGED <<startCh, doneCh, cancelled, startTime, lastSeenTime,
                   requestId, eventCache, lines, diag, snap, npages>>
    /\ UNCHANGED outside

\* FilterLogEventsPages hands one page to fn
FetchPage(evs, lastPage) ==
    /\ pc = "FilterLogEventsPages"
    /\ LET st == fnEvents(evs, [requestId |-> requestId, eventCache |-> eventCache,
                                lines |-> lines, diag |-> diag, doneCh |-> doneCh,
                                blocked |-> FALSE])
       IN  /\ requestId' = st.requestId
           /\ eventCache' = st.eventCache
           /\ lines' = st.lines
           /\ diag' = st.diag
           /\ doneCh' = st.doneCh
           /\ IF st.blocked
              THEN /\ pc' = "send done"
                   /\ op' = "Blocked"
                   /\ lastSeenTime' = lastSeenTime
                   /\ input' = input
              ELSE /\ pc' = IF lastPage THEN "select" ELSE "FilterLogEventsPages"
                   /\ op' = IF lastPage THEN "LastPage" ELSE "Page"
                   /\ lastSeenTime' = Watermark(lastSeenTime, evs, lastPage)
                   /\ input' = IF lastPage THEN NoInput ELSE input
           /\ snap' = IF lastPage /\ ~st.blocked
                      THEN [requestId |-> st.requestId,
                            lastSeenTime |-> Watermark(lastSeenTime, evs, lastPage),
                            nlines |-> Len(st.lines), nseen |-> Len(st.eventCache)]
                      ELSE snap
    /\ ret' = ret
    /\ npages' = IF npages < 2 THEN npages + 1 ELSE npages
    /\ page' = [lastEv |-> IF evs = <<>> \/ ~lastPage THEN "" ELSE Last(evs),
                seen |-> IF \A i \in 1..Len(evs) : Peek(eventCache, evs[i])
                         THEN (IF evs = <<>> THEN "none" ELSE "all")
                         ELSE IF \E i \in 1..Len(evs) : Peek(eventCache, evs[i])
                         THEN "some" ELSE "none"]
    /\ UNCHANGED <<startCh, cancelled, ctxAtCall, startTime>>
    /\ UNCHANGED outside

\* FilterLogEventsPages returns an error
FetchError(err) ==
    /\ pc = "FilterLogEventsPages"
    /\ IF err = "ThrottlingException"
       THEN /\ Moves("select", "none", "Fetch ThrottlingException")
            /\ diag' = diag \cup {[kind |-> "Rate exceeded", request_id |-> NoId]}
       ELSE /\ Moves("returned", "FilterLogEventsPages error", "Fetch " \o err)
            /\ diag' = diag
    /\ input' = NoInput
    /\ UNCHANGED <<startCh, doneCh, cancelled, ctxAtCall, startTime, lastSeenTime,
                   requestId, eventCache, lines, snap, npages>>
    /\ UNCHANGED outside

\* "case <-done: return nil"
SelectDone ==
    /\ pc = "select"
    /\ doneCh > 0
    /\ doneCh' = doneCh - 1
    /\ Moves("returned", "nil", "Done")
    /\ UNCHANGED <<startCh, cancelled, ctxAtCall, startTime, lastSeenTime,
                   requestId, eventCache, input, lines, diag, snap, npages>>
    /\ UNCHANGED outside

\* "case <-ctx.Done(): return ctx.Err()"
SelectCancel ==
    /\ pc = "select"
    /\ cancelled
    /\ Moves("returned", "ctx.Err", "Cancelled")
    /\ UNCHANGED <<startCh, doneCh, cancelled, ctxAtCall, startTime, lastSeenTime,
                   requestId, eventCache, input, lines, diag, snap, npages>>
    /\ UNCHANGED outside

Next ==
    \/ \E resp \in {"ok", "error", "FunctionError"} : Invoke(resp)
    \/ Tick
    \/ Cancel
    \/ SelectStart
    \/ \E listing \in Listings, err \in DiscoveryErrors, errAt \in 1..3 :
           ListLogStreams(listing, err, errAt)
    \/ \E evs \in Pages[Deliverable(input)], lastPage \in BOOLEAN :
           FetchPage(evs, lastPage)
    \/ \E err \in FetchErrors : FetchError(err)
    \/ SelectDone
    \/ SelectCancel

Spec == Init /\ [][Next]_vars

----------------------------------------------------------------------------
(* One call of listLogStreams, for every listing the backend can hold *)

\* the streams a DescribeLogStreams page can hold: s1 was last written at 2,
\* s2 at 3, s3 has a nil field
StreamPool == {Stream("s1", TRUE, 2), Stream("s2", TRUE, 3), Stream("s3", FALSE, 3)}

\* the listings of at most MaxListPages pages of at most MaxPageLen streams
AllListings == SeqsUpTo(PagesOf(StreamPool, MaxPageLen), MaxListPages)

Sinces == {2, 3}

\* a call of listLogStreams is about to be made
InitList ==
    /\ LoopInit
    /\ cacheSize = maxEventsCache
    /\ funcName = MyFunction
    /\ parsed = parseAWSFuncName(MyFunction)
    /\ logStreams \in AllListings
    /\ listSince \in Sinces
    /\ listed = NotListed
    /\ tickerC = 0
    /\ tickerPc = "range"

\* listLogStreams(ctx, logGroupName, since) is called and returns
CallListLogStreams(err, errAt) ==
    /\ listed = NotListed
    /\ err # "none" => errAt <= Len(logStreams) + 1
    /\ LET r == listLogStreams(logStreams, listSince, err, errAt)
           a == describePages(logStreams, 1, listSince, err, errAt, <<>>)
       IN  listed' = [streams |-> r.streams, err |-> r.err, read |-> a.read,
                      answer |-> a.err]
    /\ UNCHANGED <<loopVars, cacheSize, funcName, parsed, logStreams, listSince, tickerC, tickerPc>>

NextList ==
    \E err \in DiscoveryErrors, errAt \in 1..(MaxListPages + 1) :
        CallListLogStreams(err, errAt)

SpecList == InitList /\ [][NextList]_vars

----------------------------------------------------------------------------
(* One call of parseAWSFuncName, for function names of at most MaxSegments *)
(* segments: the first is "arn", a number, a name or empty, the second is  *)
(* "aws", "function" or something else, the others are one character or    *)
(* empty.                                                                  *)

FirstSegments == {Arn, <<"1", "2">>, <<"f", "n">>, <<>>}

SecondSegments == {Aws, Function, <<"x">>}

OtherSegments == {<<"a">>, <<>>}

\* the segments position k of a name can hold
SegmentsAt(k) ==
    IF k = 1 THEN FirstSegments ELSE IF k = 2 THEN SecondSegments ELSE OtherSegments

RECURSIVE ListsOfLen(_)
ListsOfLen(k) ==
    IF k = 1 THEN {<<s>> : s \in SegmentsAt(1)}
    ELSE {Append(p, s) : p \in ListsOfLen(k - 1), s \in SegmentsAt(k)}

SegmentLists == UNION {ListsOfLen(k) : k \in 1..MaxSegments}

\* the string whose segments are p
RECURSIVE Join(_)
Join(p) == IF Len(p) = 1 THEN p[1] ELSE p[1] \o <<Colon>> \o Join(Tail(p))

FuncNames == {Join(p) : p \in SegmentLists}

InitParse ==
    /\ LoopInit
    /\ cacheSize = maxEventsCache
    /\ funcName \in FuncNames
    /\ parsed = NotParsed
    /\ logStreams = <<>>
    /\ listSince = 0
    /\ listed = NotListed
    /\ tickerC = 0
    /\ tickerPc = "range"

\* NewAWSServerless calls parseAWSFuncName(config.funcName)
CallParseAWSFuncName ==
    /\ parsed = NotParsed
    /\ parsed' = parseAWSFuncName(funcName)
    /\ UNCHANGED <<loopVars, cacheSize, funcName, logStreams, listSince, listed, tickerC,
                   tickerPc>>

SpecParse == InitParse /\ [][CallParseAWSFuncName]_vars

----------------------------------------------------------------------------
(* Scenario A: the log group holds the START and the END line of one       *)
(* invocation; the first poll cycle returns the START line, the next one   *)
(* the END line, later ones only what was delivered before; there is no    *)
(* cancellation and no backend error.                                      *)

IsStart(id) == Len(StartOf[id]) = 2

IsEnd(id) == Len(EndOf[id]) = 2

EndsOf(rid) == {id \in EventIds : IsEnd(id) /\ EndOf[id][2] = rid}

\* the event the poll cycle in progress has to return: the START line in the
\* first cycle, the END line of that invocation in the second
Due(in) ==
    IF snap.nlines = 0 THEN {e \in Deliverable(in) : IsStart(e)}
    ELSE IF snap.nlines = 1 THEN Deliverable(in) \cap EndsOf(requestId)
    ELSE {}

\* the pages a fetch may deliver: the due event once, in any page of the
\* fetch, the other pages empty; after the END line only redeliveries
ScenarioAPages(in, lastPage) ==
    IF snap.nlines >= 2
    THEN Pages[Deliverable(in) \cap Range(eventCache)]
    ELSE IF Len(lines) = snap.nlines
    THEN {<<id>> : id \in Due(in)} \cup (IF lastPage THEN {} ELSE {<<>>})
    ELSE {<<>>}

DiscoverA ==
    \E listing \in Listings :
        /\ ListLogStreams(listing, "none", 1)
        /\ Len(lines) < 2 => (pc' = "FilterLogEventsPages" /\ Due(input') # {})

FetchA == \E evs \in ScenarioAPages(input, FALSE) : FetchPage(evs, FALSE)

FetchLastA == \E evs \in ScenarioAPages(input, TRUE) : FetchPage(evs, TRUE)

NextA ==
    \/ Invoke("ok")
    \/ Tick
    \/ SelectStart
    \/ DiscoverA
    \/ FetchA
    \/ FetchLastA
    \/ SelectDone

\* the ticker fires, backend calls return, a fetch has finitely many pages,
\* and select picks among the ready cases at random: a case that is ready
\* again and again is taken
SpecA ==
    /\ Init
    /\ [][NextA]_vars
    /\ WF_vars(Invoke("ok"))
    /\ WF_vars(Tick)
    /\ WF_vars(SelectStart)
    /\ WF_vars(DiscoverA)
    /\ SF_vars(FetchLastA)
    /\ SF_vars(SelectDone)

----------------------------------------------------------------------------
(* The ticker goroutine step by step, beside the tail loop of scenario A.  *)
(* apiTicker.C buffers one tick and the runtime drops the ticks that find  *)
(* it full; the goroutine takes a tick from it and then sends on start,    *)
(* where it waits while the buffer of start is full.                       *)

\* an interval of apiTicker elapses; with apiTicker.C full the tick is dropped
\* and nothing changes
TickerFires ==
    /\ Running
    /\ tickerC < TickerCap
    /\ tickerC' = tickerC + 1
    /\ UNCHANGED <<loopVars, cacheSize, funcName, parsed, logStreams, listSince, listed,
                   tickerPc>>

\* "for range apiTicker.C" receives a tick
TickerRange ==
    /\ Running
    /\ tickerPc = "range"
    /\ tickerC > 0
    /\ tickerC' = tickerC - 1
    /\ tickerPc' = "send"
    /\ UNCHANGED <<loopVars, cacheSize, funcName, parsed, logStreams, listSince, listed>>

\* "start <- struct{}{}" goes through
TickerSend ==
    /\ Running
    /\ tickerPc = "send"
    /\ startCh < StartCap
    /\ startCh' = startCh + 1
    /\ tickerPc' = "range"
    /\ UNCHANGED <<pc, ret, doneCh, cancelled, ctxAtCall, startTime, lastSeenTime,
                   requestId, eventCache, input, lines, diag, op, snap, npages,
                   page>>
    /\ UNCHANGED <<cacheSize, funcName, parsed, logStreams, listSince, listed, tickerC>>

NextTicker ==
    \/ Invoke("ok")
    \/ TickerFires
    \/ TickerRange
    \/ TickerSend
    \/ SelectStart
    \/ DiscoverA
    \/ FetchA
    \/ FetchLastA
    \/ SelectDone

SpecTicker == Init /\ [][NextTicker]_vars

----------------------------------------------------------------------------
(* The tail loop with an event cache of SmallCache entries, so that the    *)
(* cache evicts; the backend answers without error, nobody cancels, and    *)
(* the run is followed until MaxLines lines were written.                  *)

InitLRU ==
    /\ LoopInit
    /\ cacheSize = SmallCache
    /\ funcName = MyFunction
    /\ parsed = parseAWSFuncName(MyFunction)
    /\ logStreams = <<>>
    /\ listSince = 0
    /\ listed = NotListed
    /\ tickerC = 0
    /\ tickerPc = "range"

DiscoverLRU == \E listing \in Listings : ListLogStreams(listing, "none", 1)

FetchLRU ==
    \E evs \in Pages[Deliverable(input)], lastPage \in BOOLEAN :
        /\ FetchPage(evs, lastPage)
        /\ Len(lines') <= MaxLines

NextLRU ==
    \/ Invoke("ok")
    \/ Tick
    \/ SelectStart
    \/ DiscoverLRU
    \/ FetchLRU
    \/ SelectDone

SpecLRU == InitLRU /\ [][NextLRU]_vars

----------------------------------------------------------------------------
(* Claims *)

ReturnedNil == pc = "returned" /\ ret = "nil"

\* line k was written for a START marker that set sl.requestId
StartLine(k) ==
    /\ lines[k].request_id = NoId
    /\ IsStart(lines[k].id)

\* line k was written for an END marker processed while sl.requestId was set
EndLine(k) ==
    /\ lines[k].request_id # NoId
    /\ IsEnd(lines[k].id)

Completed ==
    /\ requestId # NoId
    /\ \E i \in 1..Len(lines) : \E j \in (i + 1)..Len(lines) : StartLine(i) /\ EndLine(j)

\* C1: sending the completion signal from the per-event processing never
\* blocks: the main goroutine is never stopped in "done <- struct{}{}" with
\* the buffer of done full (nobody else receives from done).
C1_SendNeverBlocks == pc # "send done"

\* C2: logTail returns nil only after a START marker set requestId and an END
\* marker was processed after it; without that it is still polling or has
\* returned a non-nil error.
C2_NilOnlyAfterCompletion ==
    /\ ReturnedNil => Completed
    /\ ~Completed =>
          \/ pc \in {"Invoke", "select", "listLogStreams", "FilterLogEventsPages"}
          \/ pc = "returned" /\ ret \in {"invoke error", "listLogStreams error",
                                         "FilterLogEventsPages error", "ctx.Err"}

C2_Witness == ReturnedNil /\ Completed /\ Len(lines) > 2

\* C3: in scenario A logTail eventually returns nil, and exactly 2 log lines
\* have been written when it returns.
C3_ScenarioA ==
    /\ <>(ReturnedNil /\ Len(lines) = 2)
    /\ [](pc = "returned" => ReturnedNil /\ Len(lines) = 2)

C3_Witness ==
    /\ ReturnedNil
    /\ Len(lines) = 2
    /\ StartLine(1)
    /\ EndLine(2)
    /\ EndOf[lines[2].id][2] = requestId

\* the step is FilterLogEventsPages handing a page to fn
FetchStep ==
    /\ pc = "FilterLogEventsPages"
    /\ op' \in {"Page", "LastPage", "Blocked"}
    /\ startCh' = startCh
    /\ cancelled' = cancelled

\* C4: an END marker processed while requestId is set signals completion
\* whether or not its identifier equals requestId: from then on the signal is
\* pending or logTail has returned nil; a non-nil return comes only from
\* cancellation or from a backend error, never from the mismatch.
C4_EndTerminatesAlsoOnMismatch ==
    /\ \A k \in 1..Len(lines) : EndLine(k) => (doneCh > 0 \/ ReturnedNil)
    /\ (\E d \in diag : d.kind = "not catched") => (doneCh > 0 \/ ReturnedNil)
    /\ (pc = "returned" /\ ~ReturnedNil) =>
           op \in {"Cancelled", "error", "FunctionError", "InternalFailure",
                   "RequestCanceled", "Fetch InternalFailure"}

C4_Witness ==
    /\ ReturnedNil
    /\ \E d \in diag : d.kind = "not catched"
    /\ \A d \in diag : d.kind # "finished"

\* C5: an END marker processed while requestId is unset is ignored: nothing
\* is sent on done, requestId stays unset and the loop goes on polling.
C5_EndIgnoredWhileAwaitingStart ==
    /\ \A k \in 1..Len(lines) :
          (lines[k].request_id = NoId /\ IsEnd(lines[k].id) /\ ~IsStart(lines[k].id))
             => (~lines[k].sent /\ lines[k].after = NoId)
    /\ requestId = NoId =>
          /\ doneCh = 0
          /\ \A d \in diag : d.kind \notin {"finished", "not catched"}
          /\ pc # "send done"
          /\ ~ReturnedNil

C5_Witness ==
    /\ requestId = NoId
    /\ \E k \in 1..Len(lines) : IsEnd(lines[k].id)
    /\ pc = "listLogStreams"
    /\ snap.nlines > 0

\* every event has at most one line, and at most one event set requestId
DedupState ==
    /\ \A i, j \in 1..Len(lines) : lines[i].id = lines[j].id => i = j
    /\ Cardinality({k \in 1..Len(lines) : lines[k].after # lines[k].request_id}) <= 1

C7_Watermark ==
    [][/\ lastSeenTime' >= lastSeenTime
       /\ (FetchStep /\ op' = "LastPage") =>
             lastSeenTime' = IF page'.lastEv = "" THEN lastSeenTime
                             ELSE Events[page'.lastEv].ingestionTime
       /\ ~(FetchStep /\ op' = "LastPage") => lastSeenTime' = lastSeenTime]_vars

C7_Witness ==
    /\ op = "LastPage"
    /\ npages = 2
    /\ page.lastEv # ""
    /\ lastSeenTime = Events[page.lastEv].ingestionTime
    /\ lastSeenTime > startTime

\* C8: after a ThrottlingException from stream discovery or from the fetch
\* logTail has not returned, is back at its select, and lastSeenTime is what
\* it was when the cycle started.
C8_ThrottleKeepsPolling ==
    op \in {"ThrottlingException", "Fetch ThrottlingException"} =>
        /\ pc = "select"
        /\ ret = "none"
        /\ lastSeenTime = snap.lastSeenTime

C8_Witness ==
    /\ op = "ThrottlingException"
    /\ pc = "select"
    /\ lastSeenTime > startTime

\* C9 (as stated): a cycle whose fetch ends with a ThrottlingException leaves
\* requestId, seenEventIds, lastSeenTime and the lines as they were when the
\* cycle started.
C9_ThrottledFetchChangesNothing ==
    op = "Fetch ThrottlingException" =>
        /\ requestId = snap.requestId
        /\ Len(eventCache) = snap.nseen
        /\ lastSeenTime = snap.lastSeenTime
        /\ Len(lines) = snap.nlines

\* C9 (amended): a cycle whose fetch ends with a ThrottlingException leaves
\* lastSeenTime as it was when the cycle started; requestId, seenEventIds and
\* the lines are unchanged when no page was handed to fn before the error.
C9_ThrottledFetchKeepsWatermark ==
    op = "Fetch ThrottlingException" =>
        /\ lastSeenTime = snap.lastSeenTime
        /\ npages = 0 =>
              /\ requestId = snap.requestId
              /\ Len(eventCache) = snap.nseen
              /\ Len(lines) = snap.nlines

C9_Witness ==
    /\ op = "Fetch ThrottlingException"
    /\ npages > 0
    /\ Len(lines) > snap.nlines
    /\ requestId # snap.requestId

\* C10: once ctx is cancelled the loop takes no further tick from start and
\* starts no fetch.
C10_NoCallAfterCancel ==
    [][cancelled =>
          /\ startCh' >= startCh
          /\ ~(pc # "FilterLogEventsPages" /\ pc' = "FilterLogEventsPages")]_vars

\* no line was written for an END marker
NoEndObserved == \A k \in 1..Len(lines) : ~IsEnd(lines[k].id)

\* C11: when ctx was cancelled while the loop was running and no END marker
\* was observed, what logTail returns is ctx.Err(): not nil, and not the
\* wrapped error of listLogStreams or FilterLogEventsPages (a failure the
\* backend reports by itself aside).
C11_CancelReturnsCtxErr ==
    (/\ pc = "returned"
     /\ cancelled
     /\ ret # "invoke error"
     /\ NoEndObserved
     /\ op \notin {"InternalFailure", "Fetch InternalFailure"}) => ret = "ctx.Err"

\* C12: after the backend answered DescribeLogStreams with
\* ResourceNotFoundException, on whichever page, listLogStreams has returned
\* no stream and no error: the loop is back at its select and no fetch was
\* prepared.
C12_GroupNotFoundSkipsCycle ==
    op = "ResourceNotFoundException" =>
        /\ pc = "select"
        /\ ret = "none"
        /\ input = NoInput

\* C13: after a backend error of stream discovery or of the fetch that is
\* neither ThrottlingException nor ResourceNotFoundException, logTail has
\* returned the wrapped error of that call, and lastSeenTime is what it was
\* when the cycle started.
C13_OtherErrorsAreFatal ==
    op \in {"InternalFailure", "RequestCanceled", "Fetch InternalFailure"} =>
        /\ pc = "returned"
        /\ ret = IF op = "Fetch InternalFailure" THEN "FilterLogEventsPages error"
                 ELSE "listLogStreams error"
        /\ lastSeenTime = snap.lastSeenTime

C13_Witness ==
    /\ op = "Fetch InternalFailure"
    /\ pc = "returned"
    /\ npages > 0
    /\ Len(lines) > snap.nlines
    /\ lastSeenTime > startTime

\* C14: after a discovery that the backend answered without error and that
\* found no candidate stream, the cycle is over: the loop is back at its
\* select without an error and without a fetch, requestId, seenEventIds,
\* lastSeenTime and the lines are what they were when the cycle started, and
\* a buffered tick starts the next cycle.
C14_EmptyDiscoverySkipsCycle ==
    op = "NoStreams" =>
        /\ pc = "select"
        /\ ret = "none"
        /\ input = NoInput
        /\ Session = snap
        /\ startCh > 0 => ENABLED SelectStart

C14_Witness ==
    /\ op = "NoStreams"
    /\ pc = "select"
    /\ startCh = 1
    /\ requestId # NoId
    /\ lastSeenTime > startTime

RECURSIVE Concat(_)
Concat(seqs) == IF seqs = <<>> THEN <<>> ELSE Head(seqs) \o Concat(Tail(seqs))

\* the candidate rule: no field is nil and lastIngestionTime >= since
Candidate(s) == s.complete /\ s.lastIngestionTime >= listSince

\* the first page without a candidate, or the last page
StopPage ==
    LET none == {i \in 1..Len(logStreams) :
                    \A j \in 1..Len(logStreams[i]) : ~Candidate(logStreams[i][j])}
    IN  IF none = {} THEN Len(logStreams)
        ELSE CHOOSE i \in none : \A k \in none : i <= k

\* C15: when the backend answers every page request, listLogStreams returns
\* without error the names of the candidates of the pages up to the first
\* page without a candidate, in listing order, and has read no page after
\* that page; no returned stream has a nil field or lastIngestionTime < since.
C15_ListsCandidates ==
    listed # NotListed =>
        /\ \A i \in 1..Len(listed.streams) :
              \E s \in StreamPool : s.name = listed.streams[i] /\ Candidate(s)
        /\ listed.answer = "none" =>
              LET c == SelectSeq(Concat(SubSeq(logStreams, 1, StopPage)), Candidate)
              IN  /\ listed.err = "nil"
                  /\ listed.streams = [i \in 1..Len(c) |-> c[i].name]
                  /\ listed.read = StopPage

C15_Witness ==
    /\ listed # NotListed
    /\ listed.answer = "none"
    /\ Len(logStreams) = 2
    /\ Len(logStreams[1]) = 2
    /\ listed.read = 2
    /\ Len(listed.streams) = 1
    /\ \E j \in 1..2 : ~logStreams[1][j].complete
    /\ \E j \in 1..Len(logStreams[2]) : logStreams[2][j].lastIngestionTime < listSince

\* C16: parseAWSFuncName is total: a name without colon gives
\* ("/aws/lambda/" + name, ""), a full ARN ("/aws/lambda/" + segment 6,
\* segment 3), a partial ARN ("/aws/lambda/" + segment 2, ""), every other
\* name the wrong-format error naming it; the call never panics and a
\* successful result has a non-empty logGroupName.
C16_ParseIsTotal ==
    parsed # NotParsed =>
        LET seg == Split(funcName)
            n == Len(seg)
            fullArn == n > 1 /\ seg[1] = Arn /\ seg[2] = Aws
            partialArn == n > 1 /\ ~fullArn /\ AtoiOk(seg[1]) /\ seg[2] = Function
        IN  /\ parsed.kind \in {"ok", "wrong format function name"}
            /\ parsed.kind = "ok" => parsed.logGroupName # <<>>
            /\ n = 1 => parsed = Parsed(LambdaPrefix \o funcName, <<>>)
            /\ (fullArn /\ n >= 7) => parsed = Parsed(LambdaPrefix \o seg[7], seg[4])
            /\ (partialArn /\ n >= 3) => parsed = Parsed(LambdaPrefix \o seg[3], <<>>)
            /\ (n > 1 /\ ~fullArn /\ ~partialArn) => parsed = WrongFormat(funcName)

\* the ticks that wait for the loop: in the buffer of start, in the hand of
\* the ticker goroutine, and in apiTicker.C
PendingTicks == startCh + (IF tickerPc = "send" THEN 1 ELSE 0) + tickerC

\* a step of the ticker goroutine or of apiTicker
TickerStep == tickerC' # tickerC \/ tickerPc' # tickerPc

\* C17: ticks are coalesced: when a poll cycle ends at most one tick is
\* pending, however many intervals elapsed during the cycle; a cycle starts
\* only when none is in progress, and takes one tick; the steps of the ticker
\* change nothing of the session.
C17_TicksCoalesced ==
    [][/\ (pc \in {"listLogStreams", "FilterLogEventsPages"} /\ pc' = "select") =>
              PendingTicks' <= 1
       /\ pc' = "listLogStreams" => (pc = "select" /\ startCh' = startCh - 1)
       /\ TickerStep =>
              UNCHANGED <<pc, requestId, lastSeenTime, eventCache, lines, doneCh>>]_vars

\* C18: once the completion signal is in the buffer of done, nothing more
\* happens before logTail returns: no line is written, nothing is added to
\* seenEventIds, requestId and lastSeenTime keep their values, and neither a
\* stream discovery nor a fetch is started.
C18_DoneIsTerminal ==
    [][doneCh > 0 =>
          /\ UNCHANGED <<lines, eventCache, requestId, lastSeenTime>>
          /\ pc' = "listLogStreams" => pc = "listLogStreams"
          /\ pc' = "FilterLogEventsPages" => pc = "FilterLogEventsPages"]_vars

\* the identifier of the first START marker among the first n lines, <<>>
\* when there is none
FirstStarted(n) ==
    LET starts == {k \in 1..n : IsStart(lines[k].id)}
    IN  IF starts = {} THEN NoId
        ELSE StartOf[lines[CHOOSE k \in starts : \A j \in starts : k <= j].id][2]

\* C19: requestId is written once: it is unset until the first START marker
\* is processed and is that marker's identifier, which is not empty, ever
\* after; later START markers and events without a marker for the current
\* state do not change it; it changes only in the processing of a page; the
\* completion signal is not sent while it is unset.
C19_RequestIdWriteOnce ==
    /\ [](/\ requestId = FirstStarted(Len(lines))
          /\ \A k \in 1..Len(lines) :
                /\ lines[k].request_id = FirstStarted(k - 1)
                /\ IsStart(lines[k].id) => StartOf[lines[k].id][2] # NoId
          /\ requestId = NoId => (doneCh = 0 /\ pc # "send done"))
    /\ [][/\ requestId # NoId => requestId' = requestId
          /\ requestId' # requestId => FetchStep
          /\ doneCh' > doneCh => (FetchStep /\ requestId' # NoId)]_vars

C19_Witness ==
    /\ Len(lines) >= 3
    /\ IsEnd(lines[1].id)
    /\ IsStart(lines[2].id)
    /\ IsStart(lines[3].id)
    /\ requestId = StartOf[lines[2].id][2]
    /\ requestId # StartOf[lines[3].id][2]

\* the ids of lines i..j
IdsOf(i, j) == {lines[k].id : k \in i..j}

====
